---- MODULE Spec2Model ----
(***************************************************************************)
(* ecd_sample_prep: synthesis of a frame file for the ECD capture path.    *)
(*                                                                         *)
(* The model follows src/unnamed/part_000, lines 1-832 (the current        *)
(* version of the program: configuration, fragment distribution, capacity  *)
(* planning, frame construction, LVDS re-ordering, the write loop and the  *)
(* -trace / -lvdsmap inspection modes).                                    *)
(*                                                                         *)
(* Five specifications share the same actions:                             *)
(*   Spec         a whole generation run, from the command line to exit    *)
(*   SpecInspect  the inspection runs (-trace <cell>, -lvdsmap) over every *)
(*                cell of a frame, on a file left by a generation run      *)
(*   SpecPlan     a run up to the capacity planner, on large configurations *)
(*   SpecDisk     a generation run onto a device that fills up             *)
(*   SpecLive     generation runs, the process taking its next step as     *)
(*                long as it has one                                       *)
(***************************************************************************)
EXTENDS Integers, Sequences, FiniteSets, TLC

\* const int ROW_SIZE = 2048
ROW_SIZE == 2048

\* ---- bounds of the model ------------------------------------------------
\* rows per frame: cells_per_frame ranges over ROW_SIZE * (1..MaxRows)
MaxRows == 2
\* cells traced in SpecInspect: 0 .. ROW_SIZE + MaxExtraCells - 1
MaxExtraCells == 40
\* data_frames ranges over 1..MaxDataFrames in Spec
MaxDataFrames == 2
\* iterations of one cell loop of buildDataFrame() the model follows
MaxCellSteps == 16

VARIABLES
    pc,                    \* the next step of execute()
    outcome,               \* "running", "returned", "exception", "exit0", "exit1", "crashed"
    message,               \* what the run last told the operator on failure
    env,                   \* argv and the files on disk when the run starts
    cmdLine,               \* struct cmdline_t
    config,                \* struct config_t
    fragment,              \* map<string, vector<int>>
    distributionList,      \* vector<distribution_t>
    lvdsTranslationTable,  \* int[ROW_SIZE]
    stats,                 \* the six quantities verifyDistributionIsValid() prints
    frameGroupCount,       \* its return value
    frameGroup, idx, frameNumber,   \* loop counters of writeOutputFile()
    frame,                 \* the reusable frame buffer
    rawFrame,              \* history: the buffer as buildDataFrame() left it
    ofile,                 \* the bytes of the output file (<<>> with exists = FALSE);
                           \* error: a write to it through the stream fell short
    ofileOpen,             \* FILE* ofile is open for writing
    stdout,                \* the values trace() printed
    ub                     \* undefined behaviour has happened in this run

vars == <<pc, outcome, message, env, cmdLine, config, fragment, distributionList,
          lvdsTranslationTable, stats, frameGroupCount, frameGroup, idx, frameNumber,
          frame, rawFrame, ofile, ofileOpen, stdout, ub>>

loadVars == <<fragment, distributionList>>
planVars == <<stats, frameGroupCount>>
loopVars == <<frameGroup, idx, frameNumber, frame, rawFrame>>
fileVars == <<ofile, ofileOpen>>

\* ---- small helpers --------------------------------------------------------
Min(S) == CHOOSE x \in S : \A y \in S : x <= y
Max(S) == CHOOSE x \in S : \A y \in S : x >= y

\* (uint8_t)v
U8(v) == v % 256

\* the buffer left as it was
memsetBad(buf, v, n) == buf

\* memset(buf, v, n) on a 0-based buffer: its first n bytes become (uint8_t)v
memset(buf, v, n) == [c \in DOMAIN buf |-> IF c < n THEN U8(v) ELSE buf[c]]

\* new uint8_t[n]: a buffer of n bytes of whatever the allocator left there
NewBuffer(fill, n) == [c \in 0..(n - 1) |-> fill]

\* the bytes of a 0-based buffer as fwrite() appends them to a file
BytesOf(buf, n) == [k \in 1..n |-> buf[k - 1]]

\* ---- unsigned integers wider than 32 bits ------------------------
\* uint32_t and uint64_t values (and the unbounded values they are compared
\* with) are little-endian sequences of base-256 digits without high zeros,
\* so that 2^32 and 2^64 wrap-around is computed and not assumed away.
RECURSIVE WNorm(_)
WNorm(d) == IF d = <<>> THEN <<>>
            ELSE IF d[Len(d)] = 0 THEN WNorm(SubSeq(d, 1, Len(d) - 1)) ELSE d

RECURSIVE W(_)
W(n) == IF n = 0 THEN <<>> ELSE <<n % 256>> \o W(n \div 256)

RECURSIVE WInt(_)
WInt(d) == IF d = <<>> THEN 0 ELSE d[1] + 256 * WInt(Tail(d))

WDigit(d, k) == IF k <= Len(d) THEN d[k] ELSE 0

RECURSIVE WAddFrom(_, _, _, _)
WAddFrom(a, b, k, carry) ==
    IF k > Len(a) /\ k > Len(b)
    THEN (IF carry = 0 THEN <<>> ELSE <<carry>>)
    ELSE LET s == WDigit(a, k) + WDigit(b, k) + carry
         IN  <<s % 256>> \o WAddFrom(a, b, k + 1, s \div 256)

WAdd(a, b) == WNorm(WAddFrom(a, b, 1, 0))

RECURSIVE WSubFrom(_, _, _, _)
WSubFrom(a, b, k, borrow) ==
    IF k > Len(a) THEN <<>>
    ELSE LET s == WDigit(a, k) - WDigit(b, k) - borrow
         IN  <<s % 256>> \o WSubFrom(a, b, k + 1, IF s < 0 THEN 1 ELSE 0)

\* a - b for a >= b
WSub(a, b) == WNorm(WSubFrom(a, b, 1, 0))

RECURSIVE WMulSmallFrom(_, _, _, _)
WMulSmallFrom(a, m, k, carry) ==
    IF k > Len(a)
    THEN (IF carry = 0 THEN <<>> ELSE <<carry % 256, carry \div 256>>)
    ELSE LET s == (a[k] * m) + carry
         IN  <<s % 256>> \o WMulSmallFrom(a, m, k + 1, s \div 256)

\* a * m for a digit-sized m (0..256)
WMulSmall(a, m) == WNorm(WMulSmallFrom(a, m, 1, 0))

RECURSIVE WMulFrom(_, _, _)
WMulFrom(a, b, k) ==
    IF k > Len(b) THEN <<>>
    ELSE WAdd(WMulSmall(a, b[k]), <<0>> \o WMulFrom(a, b, k + 1))

WMul(a, b) == WNorm(WMulFrom(a, b, 1))

RECURSIVE WLessFrom(_, _, _)
WLessFrom(a, b, k) ==
    IF k = 0 THEN FALSE
    ELSE IF a[k] # b[k] THEN a[k] < b[k] ELSE WLessFrom(a, b, k - 1)

WLess(a, b) == IF Len(a) # Len(b) THEN Len(a) < Len(b) ELSE WLessFrom(a, b, Len(a))
WLeq(a, b) == ~WLess(b, a)

\* the value reduced modulo 2^(8 * bytes): conversion to an unsigned type
WTrunc(a, bytes) == WNorm(SubSeq(a, 1, IF Len(a) < bytes THEN Len(a) ELSE bytes))
U32(a) == WTrunc(a, 4)
U64(a) == WTrunc(a, 8)

\* long division, most significant digit first; acc = <<quotient, remainder>>
RECURSIVE WDivFrom(_, _, _, _)
WDivFrom(a, b, k, acc) ==
    IF k = 0 THEN acc
    ELSE LET r == WNorm(<<a[k]>> \o acc[2])
             q == CHOOSE x \in 0..255 :
                      /\ WLeq(WMulSmall(b, x), r)
                      /\ WLess(r, WMulSmall(b, x + 1))
         IN  WDivFrom(a, b, k - 1, <<WNorm(<<q>> \o acc[1]), WSub(r, WMulSmall(b, q))>>)

\* floor(a / b) for b > 0
WDiv(a, b) == WDivFrom(a, b, Len(a), <<(<<>>), (<<>>)>>)[1]

\* ---- the LVDS translation table -------------------------------------------
\* int lvdsTranslationTable[ROW_SIZE]: a global, zero before it is built
ZeroTable == [c \in 0..(ROW_SIZE - 1) |-> 0]

\* the inner loop with cellValue += 4 in place of cellValue += 8
FillCellsBad(table, rowOffset, cellValue) ==
    [c \in DOMAIN table |->
        IF c <= rowOffset /\ c > rowOffset - 64
        THEN cellValue + (4 * (rowOffset - c))
        ELSE table[c]]

\* for (int i=0; i<64; ++i) { table[rowOffset - i] = cellValue; cellValue += 8; }
\* iteration i stores cellValue + 8*i at index rowOffset - i
FillCells(table, rowOffset, cellValue) ==
    [c \in DOMAIN table |->
        IF c <= rowOffset /\ c > rowOffset - 64
        THEN cellValue + (8 * (rowOffset - c))
        ELSE table[c]]

\* the row loop with cellValue = row * 256 + group in place of row * 512 + group
RECURSIVE FillRowsBad(_, _, _, _)
FillRowsBad(table, group, groupOffset, row) ==
    IF row >= 4 THEN table
    ELSE FillRowsBad(FillCells(table, groupOffset + (row * 64), row * 256 + group),
                     group, groupOffset, row + 1)

\* for (int row=0; row<4; ++row) { rowOffset = groupOffset + row*64; cellValue = row*512 + group; ... }
RECURSIVE FillRows(_, _, _, _)
FillRows(table, group, groupOffset, row) ==
    IF row >= 4 THEN table
    ELSE FillRows(FillCells(table, groupOffset + (row * 64), row * 512 + group),
                  group, groupOffset, row + 1)

\* the group loop with groupOffset = (7 - group) * 256 + 63
RECURSIVE FillGroupsBad(_, _)
FillGroupsBad(table, group) ==
    IF group >= 8 THEN table
    ELSE FillGroupsBad(FillRows(table, group, (7 - group) * 256 + 63, 0), group + 1)

\* for (int group=0; group<8; ++group) { groupOffset = group*256 + 63; ... }
RECURSIVE FillGroups(_, _)
FillGroups(table, group) ==
    IF group >= 8 THEN table
    ELSE FillGroups(FillRows(table, group, group * 256 + 63, 0), group + 1)

\* the table createLvdsTranslationTable() leaves in the zero-initialised global
CreatedTable == FillGroups(ZeroTable, 0)

\* the table left as it was found
TableAfterCreateBad(t) == t

\* createLvdsTranslationTable() on a table t (the loops run once for the
\* zero-initialised global and are not repeated for every run of the model)
TableAfterCreate(t) == IF t = ZeroTable THEN CreatedTable ELSE FillGroups(t, 0)

\* the lookup handing back the raw offset it was given instead of the index i
FoundBad(table, rawCellOffset) ==
    LET hits == {c \in 0..(ROW_SIZE - 1) : table[c] = rawCellOffset}
    IN  IF hits = {} THEN [found |-> FALSE, offset |-> 0]
        ELSE [found |-> TRUE, offset |-> rawCellOffset]

\* findLvdsCellOffset(): the first i in 0..ROW_SIZE-1 with table[i] == rawCellOffset;
\* found = FALSE stands for the throwRuntime("BUG: ...") after the loop
findLvdsCellOffset(table, rawCellOffset) ==
    LET hits == {c \in 0..(ROW_SIZE - 1) : table[c] = rawCellOffset}
    IN  IF hits = {} THEN [found |-> FALSE, offset |-> 0]
        ELSE [found |-> TRUE, offset |-> Min(hits)]

\* the row copy reading from rawFrame instead of rawRow
ReorderRowBad(f, table, row) ==
    [c \in DOMAIN f |->
        IF c >= ROW_SIZE * row /\ c < ROW_SIZE * (row + 1)
        THEN f[table[c - (ROW_SIZE * row)]]
        ELSE f[c]]

\* one row of reorderForLvds(): lvdsRow[i] = rawRow[table[i]], then
\* memcpy(rawRow, lvdsRow, ROW_SIZE), with rawRow = rawFrame + ROW_SIZE * row
ReorderRow(f, table, row) ==
    [c \in DOMAIN f |->
        IF c >= ROW_SIZE * row /\ c < ROW_SIZE * (row + 1)
        THEN f[(ROW_SIZE * row) + table[c - (ROW_SIZE * row)]]
        ELSE f[c]]

\* for (int row=0; row<rowsPerFrame; ++row) ...
RECURSIVE ReorderRows(_, _, _, _)
ReorderRows(f, table, row, rowsPerFrame) ==
    IF row >= rowsPerFrame THEN f
    ELSE ReorderRows(ReorderRow(f, table, row), table, row + 1, rowsPerFrame)

\* reorderForLvds(rawFrame): rowsPerFrame = cells_per_frame / ROW_SIZE
reorderForLvds(f, table, cells_per_frame) ==
    ReorderRows(f, table, 0, cells_per_frame \div ROW_SIZE)

\* ---- the state of a process at the start of main() --------------------------
\* globals are zero-initialised; struct config_t holds cells_per_frame as a
\* plain number and the wide fields (uint64_t contig_size, uint32_t
\* data_frames) as wide naturals
ZeroConfig ==
    [cells_per_frame |-> 0, contig_size |-> <<>>, diagnostic_values |-> <<>>,
     data_frames |-> <<>>, quiescent |-> 0]

ZeroCmdLine == [trace |-> FALSE, cellNumber |-> 0, nolvds |-> FALSE, lvdsmap |-> FALSE]

NoMessage == [kind |-> "none", name |-> "", number |-> 0]
Msg(kind, name, number) == [kind |-> kind, name |-> name, number |-> number]

EmptyBuffer == [c \in {} |-> 0]
NoStats == [longestSequence |-> <<>>, frameGroupLength |-> <<>>, frameGroupCount |-> <<>>,
            maxFrames |-> <<>>, totalReqdFrames |-> <<>>, totalContigReqd |-> <<>>]

\* everything but the environment (argv, the files on disk)
ProcessStart ==
    /\ pc = "parseCommandLine"
    /\ outcome = "running"
    /\ message = NoMessage
    /\ cmdLine = ZeroCmdLine
    /\ config = ZeroConfig
    /\ fragment = [n \in {} |-> <<>>]
    /\ distributionList = <<>>
    /\ lvdsTranslationTable = ZeroTable
    /\ stats = NoStats
    /\ frameGroupCount = <<>>
    /\ frameGroup = 0
    /\ idx = 0
    /\ frameNumber = 0
    /\ frame = EmptyBuffer
    /\ rawFrame = EmptyBuffer
    /\ ofileOpen = FALSE
    /\ stdout = <<>>
    /\ ub = FALSE

\* throwRuntime(...) anywhere below main(): main() catches it, prints e.what()
\* on cerr and falls off its end
Throw(m) ==
    /\ pc' = "done"
    /\ outcome' = "exception"
    /\ message' = m

\* exit(code) with what was printed before it
Exit(code, m) ==
    /\ pc' = "done"
    /\ outcome' = (IF code = 0 THEN "exit0" ELSE "exit1")
    /\ message' = m

\* ---- execute(), up to the choice of mode -------------------------------------
\* parseCommandLine(): the switches of argv into cmdLine
parseCommandLine ==
    /\ pc = "parseCommandLine"
    /\ cmdLine' = [trace |-> env.argv.trace, cellNumber |-> env.argv.cellNumber,
                   nolvds |-> env.argv.nolvds, lvdsmap |-> env.argv.lvdsmap]
    /\ pc' = "readConfigurationFile"
    /\ UNCHANGED <<outcome, message, env, config, loadVars, lvdsTranslationTable,
                   planVars, loopVars, fileVars, stdout, ub>>

\* readConfigurationFile(): cf.read() fails -> throwRuntime("Can't read %s")
readConfigurationFile ==
    /\ pc = "readConfigurationFile"
    /\ IF ~env.configFile.readable
       THEN /\ Throw(Msg("Can't read", "config", 0))
            /\ UNCHANGED config
       ELSE /\ config' = env.configFile.values
            /\ pc' = "createLvdsTranslationTable"
            /\ UNCHANGED <<outcome, message>>
    /\ UNCHANGED <<env, cmdLine, loadVars, lvdsTranslationTable, planVars, loopVars,
                   fileVars, stdout, ub>>

\* createLvdsTranslationTable()
createLvdsTranslationTable ==
    /\ pc = "createLvdsTranslationTable"
    /\ lvdsTranslationTable' = TableAfterCreate(lvdsTranslationTable)
    /\ pc' = "mode"
    /\ UNCHANGED <<outcome, message, env, cmdLine, config, loadVars, planVars, loopVars,
                   fileVars, stdout, ub>>

\* if (cmdLine.lvdsmap) { printLvdsMap(); exit(0); }
printLvdsMap ==
    /\ pc = "mode"
    /\ cmdLine.lvdsmap
    /\ stdout' = [k \in 1..(32 * 64) |-> lvdsTranslationTable[k - 1]]
    /\ Exit(0, NoMessage)
    /\ UNCHANGED <<env, cmdLine, config, loadVars, lvdsTranslationTable, planVars,
                   loopVars, fileVars, ub>>

\* what reading frame[cellNumber] past the end of the buffer can give
TraceUbOutcomes ==
    {[crash |-> TRUE, byte |-> 0], [crash |-> FALSE, byte |-> 0], [crash |-> FALSE, byte |-> 255]}

\* trace() without the offset of the row the cell is in
TraceIndexBad(cl, table) ==
    IF cl.nolvds THEN cl.cellNumber
    ELSE findLvdsCellOffset(table, cl.cellNumber % ROW_SIZE).offset

\* the cell index trace() reads in every frame
TraceIndex(cl, table) ==
    IF cl.nolvds THEN cl.cellNumber
    ELSE ((cl.cellNumber \div ROW_SIZE) * ROW_SIZE)
            + findLvdsCellOffset(table, cl.cellNumber % ROW_SIZE).offset

\* the read taking cellNumber for a cell number counted from 1
FrameCellBad(bytes, f, cells_per_frame, cellNumber) ==
    bytes[((f - 1) * cells_per_frame) + ((cellNumber + cells_per_frame - 1) % cells_per_frame) + 1]

\* frame[cellNumber] of the f-th frame that fread() delivers (f = 1, 2, ...)
FrameCell(bytes, f, cells_per_frame, cellNumber) ==
    bytes[((f - 1) * cells_per_frame) + cellNumber + 1]

\* if (cmdLine.trace) { trace(cmdLine.cellNumber); exit(0); }
trace ==
    /\ pc = "mode"
    /\ ~cmdLine.lvdsmap
    /\ cmdLine.trace
    /\ LET look == findLvdsCellOffset(lvdsTranslationTable, cmdLine.cellNumber % ROW_SIZE)
           cellNumber == TraceIndex(cmdLine, lvdsTranslationTable)
           cpf == config.cells_per_frame
           nFrames == Len(ofile.bytes) \div cpf
       IN  IF ~cmdLine.nolvds /\ ~look.found
           THEN /\ Throw(Msg("BUG: findLvdsCellOffset with invalid cell offset", "",
                             cmdLine.cellNumber % ROW_SIZE))
                /\ UNCHANGED <<stdout, ub>>
           ELSE IF ~ofile.exists
           THEN /\ Throw(Msg("Can't create", "output_file", 0))
                /\ UNCHANGED <<stdout, ub>>
           ELSE IF nFrames > 0 /\ cellNumber >= cpf
           THEN \E o \in TraceUbOutcomes :
                    /\ ub' = TRUE
                    /\ IF o.crash
                       THEN /\ pc' = "done" /\ outcome' = "crashed"
                            /\ UNCHANGED <<message, stdout>>
                       ELSE /\ stdout' = [f \in 1..nFrames |-> o.byte]
                            /\ Exit(0, NoMessage)
           ELSE /\ stdout' = [f \in 1..nFrames |-> FrameCell(ofile.bytes, f, cpf, cellNumber)]
                /\ Exit(0, NoMessage)
                /\ UNCHANGED ub
    /\ UNCHANGED <<env, cmdLine, config, loadVars, lvdsTranslationTable, planVars,
                   loopVars, fileVars>>

\* ---- loading ---------------------------------------------------------------------
\* loadFragments(): fragment[fragmentName] = v for every definition line, in
\* file order; the file is modelled after tokenizing, a line being
\* [name, values] with values the atoi() of its tokens
RECURSIVE FragmentsFrom(_, _, _)
FragmentsFrom(lines, k, map) ==
    IF k > Len(lines) THEN map
    ELSE FragmentsFrom(lines, k + 1,
            [n \in (DOMAIN map) \cup {lines[k].name} |->
                IF n = lines[k].name THEN lines[k].values ELSE map[n]])

loadFragments ==
    /\ pc = "loadFragments"
    /\ IF ~env.fragmentFile.found
       THEN /\ Throw(Msg("not found", "fragment_file", 0))
            /\ UNCHANGED fragment
       ELSE /\ fragment' = FragmentsFrom(env.fragmentFile.lines, 1, fragment)
            /\ pc' = "loadDistribution"
            /\ UNCHANGED <<outcome, message>>
    /\ UNCHANGED <<env, cmdLine, config, distributionList, lvdsTranslationTable, planVars,
                   loopVars, fileVars, stdout, ub>>

\* vector<uint8_t>::insert of a vector<int>: every value narrowed to uint8_t
NarrowAll(values) == [k \in 1..Len(values) |-> U8(values[k])]

\* the fragment names of one line, resolved in order into drcv; the result is
\* [ok, cellValue, name], name being the first name fragment.find() misses
RECURSIVE ResolveNames(_, _, _, _)
ResolveNames(names, k, frags, drcv) ==
    IF k > Len(names) THEN [ok |-> TRUE, cellValue |-> drcv, name |-> ""]
    ELSE IF names[k] \notin DOMAIN frags
         THEN [ok |-> FALSE, cellValue |-> drcv, name |-> names[k]]
         ELSE ResolveNames(names, k + 1, frags, drcv \o NarrowAll(frags[names[k]]))

\* the range test with first < 0 in place of first < 1
InvalidCellBad(first, cells_per_frame) == first < 0 \/ first > cells_per_frame

\* if (distRecord.first < 1 || distRecord.first > config.cells_per_frame)
InvalidCell(first, cells_per_frame) == first < 1 \/ first > cells_per_frame

\* the loop pushing the record of a line although one of its names is undefined
RECURSIVE DistributionFromBad(_, _, _, _, _)
DistributionFromBad(lines, k, frags, cells_per_frame, list) ==
    IF k > Len(lines) THEN [list |-> list, error |-> NoMessage]
    ELSE LET line == lines[k]
             last == IF line.last = 0 THEN line.first ELSE line.last
             step == IF line.step = 0 THEN 1 ELSE line.step
             res  == ResolveNames(line.names, 1, frags, <<>>)
             rec  == [first |-> line.first, last |-> last, step |-> step,
                      cellValue |-> res.cellValue]
         IN  IF InvalidCell(line.first, cells_per_frame)
             THEN [list |-> list, error |-> Msg("Invalid cell number", "", line.first)]
             ELSE IF ~res.ok
             THEN [list |-> Append(list, rec), error |-> Msg("Undefined fragment name", res.name, 0)]
             ELSE DistributionFromBad(lines, k + 1, frags, cells_per_frame, Append(list, rec))

\* the while (getline(...)) loop of loadDistribution(); a line is modelled after
\* tokenizing: [first, last, step, names], a missing number being atoi("") = 0.
\* The result is [list, error]: the loop stops at the first throwRuntime().
RECURSIVE DistributionFrom(_, _, _, _, _)
DistributionFrom(lines, k, frags, cells_per_frame, list) ==
    IF k > Len(lines) THEN [list |-> list, error |-> NoMessage]
    ELSE LET line == lines[k]
             last == IF line.last = 0 THEN line.first ELSE line.last
             step == IF line.step = 0 THEN 1 ELSE line.step
             res  == ResolveNames(line.names, 1, frags, <<>>)
         IN  IF InvalidCell(line.first, cells_per_frame)
             THEN [list |-> list, error |-> Msg("Invalid cell number", "", line.first)]
             ELSE IF ~res.ok
             THEN [list |-> list, error |-> Msg("Undefined fragment name", res.name, 0)]
             ELSE DistributionFrom(lines, k + 1, frags, cells_per_frame,
                      Append(list, [first |-> line.first, last |-> last, step |-> step,
                                    cellValue |-> res.cellValue]))

loadDistribution ==
    /\ pc = "loadDistribution"
    /\ IF ~env.distributionFile.found
       THEN /\ Throw(Msg("not found", "distribution_file", 0))
            /\ UNCHANGED distributionList
       ELSE LET res == DistributionFrom(env.distributionFile.lines, 1, fragment,
                                        config.cells_per_frame, distributionList)
            IN  /\ distributionList' = res.list
                /\ IF res.error.kind # "none"
                   THEN Throw(res.error)
                   ELSE /\ pc' = "verifyDistributionIsValid"
                        /\ UNCHANGED <<outcome, message>>
    /\ UNCHANGED <<env, cmdLine, config, fragment, lvdsTranslationTable, planVars,
                   loopVars, fileVars, stdout, ub>>

\* ---- the capacity planner ----------------------------------------------------------
\* findLongestSequence(): uint32_t longestLength over cellValue.size()
RECURSIVE findLongestSequence(_, _, _)
findLongestSequence(list, k, longestLength) ==
    IF k > Len(list) THEN longestLength
    ELSE findLongestSequence(list, k + 1,
            IF WLess(longestLength, W(Len(list[k].cellValue)))
            THEN U32(W(Len(list[k].cellValue)))
            ELSE longestLength)

\* the group count without the + 1
FrameGroupCntBad(groups) == U32(groups)

\* uint32_t frameGroupCount = longestSequence / config.data_frames + 1
FrameGroupCnt(groups) == U32(WAdd(groups, W(1)))

\* the arithmetic of verifyDistributionIsValid(), every variable in its own
\* width; divZero is what an integer division by zero yields on the build at
\* hand when it does not trap
CapacityPlan(cfg, list, divZero) ==
    LET cpf              == W(cfg.cells_per_frame)
        diagnosticFrames == U32(W(Len(cfg.diagnostic_values)))
        maxFrames        == IF cpf = <<>> THEN divZero
                            ELSE U32(WDiv(cfg.contig_size, cpf))
        longestSequence  == findLongestSequence(list, 1, <<>>)
        frameGroupLength == U32(WAdd(diagnosticFrames, cfg.data_frames))
        groups           == IF cfg.data_frames = <<>> THEN divZero
                            ELSE WDiv(longestSequence, cfg.data_frames)
        frameGroupCnt    == FrameGroupCnt(groups)
        totalReqdFrames  == U32(WMul(frameGroupCnt, frameGroupLength))
        totalContigReqd  == U64(WMul(totalReqdFrames, cpf))
    IN  [longestSequence |-> longestSequence, frameGroupLength |-> frameGroupLength,
         frameGroupCount |-> frameGroupCnt, maxFrames |-> maxFrames,
         totalReqdFrames |-> totalReqdFrames, totalContigReqd |-> totalContigReqd]

\* the capacity test left out
AcceptsBad(plan) == TRUE

\* the six printf() lines happen before the capacity test
Accepts(plan) == ~WLess(plan.maxFrames, plan.totalReqdFrames)

\* integer division by zero is undefined: the process traps, or goes on with
\* a quotient of the build's choosing
DivZeroOutcomes == {[trap |-> TRUE, quotient |-> <<>>], [trap |-> FALSE, quotient |-> <<>>]}

\* the divisibility test left out
RowMultipleBad(cells_per_frame) == TRUE

\* if (config.cells_per_frame % ROW_SIZE != 0) { printf(...); exit(1); }
RowMultiple(cells_per_frame) == cells_per_frame % ROW_SIZE = 0

verifyDistributionIsValid ==
    /\ pc = "verifyDistributionIsValid"
    /\ IF ~RowMultiple(config.cells_per_frame)
       THEN /\ Exit(1, Msg("Config value 'cells_per_frame' must a multiple of", "", ROW_SIZE))
            /\ UNCHANGED <<planVars, ub>>
       ELSE IF config.cells_per_frame = 0 \/ config.data_frames = <<>>
       THEN \E o \in DivZeroOutcomes :
               /\ ub' = TRUE
               /\ IF o.trap
                  THEN /\ pc' = "done" /\ outcome' = "crashed"
                       /\ UNCHANGED <<message, planVars>>
                  ELSE LET plan == CapacityPlan(config, distributionList, o.quotient)
                       IN  /\ stats' = plan
                           /\ IF Accepts(plan)
                              THEN /\ frameGroupCount' = plan.frameGroupCount
                                   /\ pc' = "writeOutputFile"
                                   /\ UNCHANGED <<outcome, message>>
                              ELSE /\ Exit(1, Msg("won't fit into the contiguous buffer", "", 0))
                                   /\ UNCHANGED frameGroupCount
       ELSE LET plan == CapacityPlan(config, distributionList, <<>>)
            IN  /\ stats' = plan
                /\ UNCHANGED ub
                /\ IF Accepts(plan)
                   THEN /\ frameGroupCount' = plan.frameGroupCount
                        /\ pc' = "writeOutputFile"
                        /\ UNCHANGED <<outcome, message>>
                   ELSE /\ Exit(1, Msg("won't fit into the contiguous buffer", "", 0))
                        /\ UNCHANGED frameGroupCount
    /\ UNCHANGED <<env, cmdLine, config, loadVars, lvdsTranslationTable, loopVars,
                   fileVars, stdout>>

\* ---- building and writing the frames --------------------------------------------------
\* 2^32, and the conversion of an int to uint32_t
Two32 == <<0, 0, 0, 0, 1>>
ToU32(x) == IF x >= 0 THEN U32(W(x)) ELSE WSub(Two32, W(0 - x))

\* for (uint32_t cellNumber = dr.first-1; cellNumber < dr.last; cellNumber += dr.step):
\* the cells visited, in order; dr.last and dr.step are converted to unsigned for
\* the comparison and the addition. ended = FALSE: the loop is still running
\* after MaxCellSteps iterations.
RECURSIVE StepCells(_, _, _, _)
StepCells(cellNumber, last32, step32, k) ==
    IF ~WLess(cellNumber, last32) THEN [cells |-> <<>>, ended |-> TRUE]
    ELSE IF k >= MaxCellSteps THEN [cells |-> <<>>, ended |-> FALSE]
    ELSE LET rest == StepCells(U32(WAdd(cellNumber, step32)), last32, step32, k + 1)
         IN  [cells |-> <<cellNumber>> \o rest.cells, ended |-> rest.ended]

\* the loop with cellNumber <= dr.last in place of cellNumber < dr.last
CellsOfBad(dr) == StepCells(ToU32(dr.first - 1), ToU32(dr.last + 1), ToU32(dr.step), 0)

CellsOf(dr) == StepCells(ToU32(dr.first - 1), ToU32(dr.last), ToU32(dr.step), 0)

\* the visited cells that lie inside a buffer of cells_per_frame bytes
InBuffer(cells, cells_per_frame) ==
    {WInt(cells[k]) : k \in {j \in 1..Len(cells) : WLess(cells[j], W(cells_per_frame))}}

\* a record that goes on storing its last value once its values are used up
ApplyRecordBad(f, dr, fnum, cells_per_frame) ==
    IF dr.cellValue # <<>>
    THEN LET hit == InBuffer(CellsOf(dr).cells, cells_per_frame)
             at  == IF fnum < Len(dr.cellValue) THEN fnum + 1 ELSE Len(dr.cellValue)
         IN  [c \in DOMAIN f |-> IF c \in hit THEN dr.cellValue[at] ELSE f[c]]
    ELSE f

\* one distribution record applied to the buffer: frame[cellNumber] = dr.cellValue[frameNumber]
ApplyRecord(f, dr, fnum, cells_per_frame) ==
    IF fnum < Len(dr.cellValue)
    THEN LET hit == InBuffer(CellsOf(dr).cells, cells_per_frame)
         IN  [c \in DOMAIN f |-> IF c \in hit THEN dr.cellValue[fnum + 1] ELSE f[c]]
    ELSE f

RECURSIVE ApplyRecords(_, _, _, _, _)
ApplyRecords(f, list, k, fnum, cells_per_frame) ==
    IF k > Len(list) THEN f
    ELSE ApplyRecords(ApplyRecord(f, list[k], fnum, cells_per_frame),
                      list, k + 1, fnum, cells_per_frame)

\* a record that is active in this frame and steps outside the buffer
WritesOutside(dr, fnum, cells_per_frame) ==
    /\ fnum < Len(dr.cellValue)
    /\ \E k \in 1..Len(CellsOf(dr).cells) : ~WLess(CellsOf(dr).cells[k], W(cells_per_frame))

StillRunning(dr, fnum) ==
    /\ fnum < Len(dr.cellValue)
    /\ ~CellsOf(dr).ended

\* buildDataFrame() without its memset: the records stored over what the buffer held
buildDataFrameBad(buf, fnum, cfg, list) ==
    [frame   |-> ApplyRecords(buf, list, 1, fnum, cfg.cells_per_frame),
     outside |-> \E k \in 1..Len(list) : WritesOutside(list[k], fnum, cfg.cells_per_frame),
     ended   |-> \A k \in 1..Len(list) : ~StillRunning(list[k], fnum)]

\* buildDataFrame(frame, frameNumber) on the buffer buf, for frameNumber = fnum: memset to quiescent, then every record in
\* list order. outside: some store went past the end of the buffer (undefined
\* behaviour); ended: every cell loop came to its end
buildDataFrame(buf, fnum, cfg, list) ==
    [frame   |-> ApplyRecords(memset(buf, cfg.quiescent, cfg.cells_per_frame), list, 1,
                              fnum, cfg.cells_per_frame),
     outside |-> \E k \in 1..Len(list) : WritesOutside(list[k], fnum, cfg.cells_per_frame),
     ended   |-> \A k \in 1..Len(list) : ~StillRunning(list[k], fnum)]

\* where the loops of writeOutputFile() stand before the frame they write next:
\* for (frameGroup...) { for (i<diagnosticFrames) ...; for (i<data_frames) ... } fclose
RECURSIVE LoopPosition(_, _, _, _, _)
LoopPosition(fg, phase, i, cfg, groupCount) ==
    IF ~WLess(W(fg), groupCount)
    THEN [pc |-> "fclose", frameGroup |-> fg, idx |-> i]
    ELSE IF phase = "diagnosticFrame"
    THEN IF i < Len(cfg.diagnostic_values)
         THEN [pc |-> phase, frameGroup |-> fg, idx |-> i]
         ELSE LoopPosition(fg, "dataFrame", 0, cfg, groupCount)
    ELSE IF WLess(W(i), cfg.data_frames)
         THEN [pc |-> phase, frameGroup |-> fg, idx |-> i]
         ELSE LoopPosition(fg + 1, "diagnosticFrame", 0, cfg, groupCount)

\* what new uint8_t[cells_per_frame] may hold before it is first filled
UninitializedBytes == {0, 205}

\* the bytes of a write of n bytes that the device takes
Taken(file, n, device) ==
    IF ~device.limited THEN n
    ELSE IF Len(file.bytes) >= device.bytes THEN 0
    ELSE IF Len(file.bytes) + n <= device.bytes THEN n
    ELSE device.bytes - Len(file.bytes)

\* fwrite(frame, 1, cells_per_frame, ofile): the bytes the device takes are
\* appended; a short count is what fwrite() returns of a failed write, and the
\* caller does not look at it
fwrite(file, buf, n, device) ==
    LET took == Taken(file, n, device)
    IN  IF took = n
        THEN [file EXCEPT !.bytes = @ \o BytesOf(buf, n)]
        ELSE [file EXCEPT !.bytes = @ \o BytesOf(buf, took), !.error = TRUE]

\* writeOutputFile(), up to the loops: fopen(filename, "w") and the buffer
writeOutputFile_open ==
    /\ pc = "writeOutputFile"
    /\ IF ~env.outputCreatable
       THEN /\ Throw(Msg("Can't create", "output_file", 0))
            /\ UNCHANGED <<loopVars, fileVars>>
       ELSE \E fill \in UninitializedBytes :
            LET at == LoopPosition(0, "diagnosticFrame", 0, config, frameGroupCount)
            IN  /\ ofile' = [exists |-> TRUE, bytes |-> <<>>, error |-> FALSE]
                /\ ofileOpen' = TRUE
                /\ frame' = NewBuffer(fill, config.cells_per_frame)
                /\ frameNumber' = 0
                /\ pc' = at.pc
                /\ frameGroup' = at.frameGroup
                /\ idx' = at.idx
                /\ UNCHANGED <<outcome, message, rawFrame>>
    /\ UNCHANGED <<env, cmdLine, config, loadVars, lvdsTranslationTable, planVars, stdout, ub>>

\* one pass of the diagnostic loop: memset(frame, diagnostic_values[i], ...); fwrite
writeOutputFile_diagnostic ==
    /\ pc = "diagnosticFrame"
    /\ LET built == memset(frame, config.diagnostic_values[idx + 1], config.cells_per_frame)
           at == LoopPosition(frameGroup, "diagnosticFrame", idx + 1, config, frameGroupCount)
       IN  /\ frame' = built
           /\ ofile' = fwrite(ofile, built, config.cells_per_frame, env.device)
           /\ pc' = at.pc
           /\ frameGroup' = at.frameGroup
           /\ idx' = at.idx
    /\ UNCHANGED <<outcome, message, env, cmdLine, config, loadVars, lvdsTranslationTable,
                   planVars, frameNumber, rawFrame, ofileOpen, stdout, ub>>

\* buildDataFrame(frame, i) in place of buildDataFrame(frame, frameNumber++)
DataFrameNumberBad(fnum, i) == i

\* the frame number buildDataFrame(frame, frameNumber++) is called with in pass
\* i of the data loop
DataFrameNumber(fnum, i) == fnum

\* a store outside the buffer is undefined: the process dies of it, or goes on
\* with the stores inside the buffer done
OutsideOutcomes(outside) == IF outside THEN {"crash", "continue"} ELSE {"continue"}

\* the frame reordered whether or not -nolvds was given
FrameToWriteBad(f, nolvds, table, cells_per_frame) ==
    reorderForLvds(f, table, cells_per_frame)

\* if (!cmdLine.nolvds) reorderForLvds(frame): the buffer handed to fwrite()
FrameToWrite(f, nolvds, table, cells_per_frame) ==
    IF nolvds THEN f ELSE reorderForLvds(f, table, cells_per_frame)

\* one pass of the data loop: buildDataFrame(frame, frameNumber++);
\* if (!cmdLine.nolvds) reorderForLvds(frame); fwrite
writeOutputFile_data ==
    /\ pc = "dataFrame"
    /\ LET built == buildDataFrame(frame, DataFrameNumber(frameNumber, idx), config,
                                   distributionList)
           sent == FrameToWrite(built.frame, cmdLine.nolvds, lvdsTranslationTable,
                                config.cells_per_frame)
           at == LoopPosition(frameGroup, "dataFrame", idx + 1, config, frameGroupCount)
       IN  IF ~built.ended
           THEN /\ pc' = "done"
                /\ outcome' = (IF built.outside THEN "crashed" ELSE "hung")
                /\ ub' = (ub \/ built.outside)
                /\ UNCHANGED <<message, loopVars, ofile>>
           ELSE \E o \in OutsideOutcomes(built.outside) :
                /\ ub' = (ub \/ built.outside)
                /\ IF o = "crash"
                   THEN /\ pc' = "done"
                        /\ outcome' = "crashed"
                        /\ UNCHANGED <<message, loopVars, ofile>>
                   ELSE /\ rawFrame' = built.frame
                        /\ frame' = sent
                        /\ ofile' = fwrite(ofile, sent, config.cells_per_frame, env.device)
                        /\ frameNumber' = frameNumber + 1
                        /\ pc' = at.pc
                        /\ frameGroup' = at.frameGroup
                        /\ idx' = at.idx
                        /\ UNCHANGED <<outcome, message>>
    /\ UNCHANGED <<env, cmdLine, config, loadVars, lvdsTranslationTable, planVars,
                   ofileOpen, stdout>>

\* fclose(ofile); writeOutputFile(), execute() and main() return
writeOutputFile_close ==
    /\ pc = "fclose"
    /\ ofileOpen' = FALSE
    /\ pc' = "done"
    /\ outcome' = "returned"
    /\ UNCHANGED <<message, env, cmdLine, config, loadVars, lvdsTranslationTable, planVars,
                   loopVars, ofile, stdout, ub>>

\* neither -lvdsmap nor -trace: execute() goes on to generate the file
generate ==
    /\ pc = "mode"
    /\ ~cmdLine.lvdsmap
    /\ ~cmdLine.trace
    /\ pc' = "loadFragments"
    /\ UNCHANGED <<outcome, message, env, cmdLine, config, loadVars, lvdsTranslationTable,
                   planVars, loopVars, fileVars, stdout, ub>>

\* ---- the input files of the model ------------------------------------------------
\* the fragment file: B is defined twice (the later line wins) and holds a value
\* that does not fit a byte; E is a fragment without values, C one of one value
FragmentLines ==
    <<[name |-> "A", values |-> <<11, 12, 13>>],
      [name |-> "B", values |-> <<7>>],
      [name |-> "E", values |-> <<>>],
      [name |-> "C", values |-> <<9>>],
      [name |-> "B", values |-> <<21, 300>>]>>

Line(first, last, step, names) == [first |-> first, last |-> last, step |-> step, names |-> names]

\* the distribution files: single cells, stepped and overlapping ranges, ranges
\* in the second row and across the end of a one-row frame, a range that is
\* empty, negative numbers, a bad cell number and an unknown fragment
DistFiles ==
    {<<>>,
     <<Line(5, 0, 0, <<"A">>)>>,
     <<Line(6, 0, 0, <<"C">>)>>,
     <<Line(1, ROW_SIZE, 512, <<"A", "B">>)>>,
     <<Line(3, 9, 2, <<"A">>), Line(5, 7, 1, <<"B">>)>>,
     <<Line(5, 7, 1, <<"B">>), Line(3, 9, 2, <<"A">>)>>,
     <<Line(1, 10, 1, <<"A">>), Line(5, 10, -2, <<"B">>)>>,
     <<Line(5, -1, -5, <<"B">>)>>,
     <<Line(ROW_SIZE - 8, ROW_SIZE + 12, 7, <<"A">>)>>,
     <<Line(ROW_SIZE - 1, 2 * ROW_SIZE, 1024, <<"B">>), Line(ROW_SIZE + 1, 0, 0, <<"A">>)>>,
     <<Line(5, 0, 0, <<"A">>), Line(0, 0, 0, <<"A">>)>>,
     <<Line(-3, 0, 0, <<"A">>)>>,
     <<Line(5, 0, 0, <<"A">>), Line(7, 0, 0, <<"A", "Z">>)>>,
     <<Line(9, 3, 1, <<"A">>)>>,
     <<Line(4, 0, 0, <<>>), Line(6, 0, 0, <<"E">>)>>}

\* ---- the environment of a run ------------------------------------------------------
\* the device of the output file: one that takes every write, or one that is
\* full after a number of bytes
Roomy == [limited |-> FALSE, bytes |-> 0]
Full(after) == [limited |-> TRUE, bytes |-> after]

Env(argv, readable, cfg, fragFound, distFound, dist, creatable, kind) ==
    [argv |-> argv,
     configFile |-> [readable |-> readable, values |-> cfg],
     fragmentFile |-> [found |-> fragFound, lines |-> FragmentLines],
     distributionFile |-> [found |-> distFound, lines |-> dist],
     outputCreatable |-> creatable,
     fileKind |-> kind,
     device |-> Roomy]

Argv(tr, cell, nolvds, map) == [trace |-> tr, cellNumber |-> cell, nolvds |-> nolvds, lvdsmap |-> map]

NoFile == [exists |-> FALSE, bytes |-> <<>>, error |-> FALSE]
StaleFile == [exists |-> TRUE, bytes |-> <<1, 2, 3>>, error |-> FALSE]

\* ---- the output file before the run ---------------------------------------------
\* two frames whose cells differ from their neighbours: a distribution list with
\* one record per cell builds them as frames 0 and 1
RawPattern(cpf, n) ==
    [c \in 0..(cpf - 1) |-> IF n = 0 THEN (c + (3 * (c \div 256))) % 256
                            ELSE ((7 * c) + (c \div ROW_SIZE) + 1) % 256]

InspectCpf == ROW_SIZE * MaxRows

\* the file trace() finds: two frames written with -nolvds, or without it
RawFile ==
    [exists |-> TRUE, error |-> FALSE,
     bytes |-> BytesOf(RawPattern(InspectCpf, 0), InspectCpf)
                 \o BytesOf(RawPattern(InspectCpf, 1), InspectCpf)]
LvdsFile ==
    [exists |-> TRUE, error |-> FALSE,
     bytes |-> BytesOf(reorderForLvds(RawPattern(InspectCpf, 0), CreatedTable, InspectCpf), InspectCpf)
                 \o BytesOf(reorderForLvds(RawPattern(InspectCpf, 1), CreatedTable, InspectCpf), InspectCpf)]

\* ---- a file left by a generation run ---------------------------------------------
\* the configuration of that run: one group of two diagnostic and three data frames
GeneratedConfig ==
    [cells_per_frame |-> InspectCpf, contig_size |-> W(InspectCpf * 8),
     diagnostic_values |-> <<34, 32>>, data_frames |-> W(3), quiescent |-> 170]

\* its distribution list: cell numbers 10 and 11 of the first row and cell
\* number 10 of the second, with sequences of two values and of one
GeneratedList ==
    <<[first |-> 10, last |-> 10, step |-> 1, cellValue |-> <<21, 44>>],
      [first |-> 11, last |-> 11, step |-> 1, cellValue |-> <<9>>],
      [first |-> ROW_SIZE + 10, last |-> ROW_SIZE + 10, step |-> 1, cellValue |-> <<7, 8>>]>>

\* the bytes writeOutputFile() writes for the data frame of number n
GeneratedDataFrame(n, nolvds) ==
    BytesOf(FrameToWrite(buildDataFrame(NewBuffer(0, InspectCpf), n, GeneratedConfig,
                                        GeneratedList).frame,
                         nolvds, CreatedTable, InspectCpf),
            InspectCpf)

\* the bytes it writes for the diagnostic frame of value v
GeneratedDiagnosticFrame(v) == BytesOf(memset(NewBuffer(0, InspectCpf), v, InspectCpf), InspectCpf)

GeneratedFile(nolvds) ==
    [exists |-> TRUE, error |-> FALSE,
     bytes |-> GeneratedDiagnosticFrame(34) \o GeneratedDiagnosticFrame(32)
                 \o GeneratedDataFrame(0, nolvds) \o GeneratedDataFrame(1, nolvds)
                 \o GeneratedDataFrame(2, nolvds)]

GeneratedLvdsFile == GeneratedFile(FALSE)
GeneratedRawFile == GeneratedFile(TRUE)
\* the raw file, its last frame one byte short
GeneratedCutFile ==
    [GeneratedRawFile EXCEPT !.bytes = SubSeq(@, 1, Len(@) - 1)]

\* the file of the configured name that the run finds on disk
FileAtStart(kind) ==
    IF kind = "stale" THEN StaleFile
    ELSE IF kind = "generated lvds" THEN GeneratedLvdsFile
    ELSE IF kind = "generated raw" THEN GeneratedRawFile
    ELSE IF kind = "generated cut" THEN GeneratedCutFile
    ELSE IF kind = "lvds" THEN LvdsFile
    ELSE IF kind = "raw" THEN RawFile
    ELSE NoFile

\* ---- a generation run -----------------------------------------------------------------
\* frames of one row and of MaxRows rows, and a size that is not whole rows
CpfChoices == {2000, ROW_SIZE, ROW_SIZE * MaxRows}
DiagChoices == {<<>>, <<34, 32>>}

\* contig_size holds exactly 2 frames, or 6 frames and all but one byte of a seventh
GenConfigs ==
    {[cells_per_frame |-> c, contig_size |-> W(size), diagnostic_values |-> d,
      data_frames |-> W(m), quiescent |-> 170] :
        <<c, size>> \in {<<c, c * 2>> : c \in CpfChoices} \cup {<<c, (c * 7) - 1>> : c \in CpfChoices},
        d \in DiagChoices, m \in {1, MaxDataFrames}}

BaseConfig ==
    [cells_per_frame |-> ROW_SIZE, contig_size |-> W(ROW_SIZE * 8), diagnostic_values |-> <<34, 32>>,
     data_frames |-> W(2), quiescent |-> 170]

\* the output file of an earlier run is in place, or (for the runs with one data
\* frame to a group) there is none yet
GenEnvs ==
    {e \in {Env(Argv(FALSE, 0, b, FALSE), TRUE, cfg, TRUE, TRUE, d, TRUE, k) :
                b \in BOOLEAN, cfg \in GenConfigs, d \in DistFiles, k \in {"none", "stale"}} :
        e.fileKind = "stale" \/ e.configFile.values.data_frames = W(1)}

\* one run for each file that can be missing, and the inspection modes
OtherEnvs ==
    {Env(Argv(FALSE, 0, FALSE, FALSE), FALSE, BaseConfig, TRUE, TRUE, <<>>, TRUE, "stale"),
     Env(Argv(FALSE, 0, FALSE, FALSE), TRUE, BaseConfig, FALSE, TRUE, <<>>, TRUE, "stale"),
     Env(Argv(FALSE, 0, FALSE, FALSE), TRUE, BaseConfig, TRUE, FALSE, <<>>, TRUE, "stale"),
     Env(Argv(FALSE, 0, FALSE, FALSE), TRUE, BaseConfig, TRUE, TRUE, <<>>, FALSE, "stale"),
     Env(Argv(FALSE, 0, FALSE, TRUE), TRUE, BaseConfig, TRUE, TRUE, <<>>, TRUE, "stale"),
     Env(Argv(TRUE, 1, FALSE, FALSE), TRUE, BaseConfig, TRUE, TRUE, <<>>, TRUE, "stale"),
     Env(Argv(TRUE, 1, TRUE, FALSE), TRUE, BaseConfig, TRUE, TRUE, <<>>, TRUE, "stale")}

Init ==
    /\ ProcessStart
    /\ env \in GenEnvs \cup OtherEnvs
    /\ ofile = FileAtStart(env.fileKind)

Next ==
    \/ parseCommandLine
    \/ readConfigurationFile
    \/ createLvdsTranslationTable
    \/ printLvdsMap
    \/ trace
    \/ generate
    \/ loadFragments
    \/ loadDistribution
    \/ verifyDistributionIsValid
    \/ writeOutputFile_open
    \/ writeOutputFile_diagnostic
    \/ writeOutputFile_data
    \/ writeOutputFile_close

Spec == Init /\ [][Next]_vars

\* ---- the inspection runs -------------------------------------------------------
InspectConfig ==
    [cells_per_frame |-> InspectCpf, contig_size |-> W(InspectCpf * 8),
     diagnostic_values |-> <<>>, data_frames |-> W(2), quiescent |-> 170]

InspectEnv(argv, kind) == Env(argv, TRUE, InspectConfig, TRUE, TRUE, <<>>, TRUE, kind)

TracedCells == 0..(ROW_SIZE + MaxExtraCells - 1)

\* the cells traced in a generated file: around the cells of its records
GeneratedCells == {0, 8, 9, 10, 11, ROW_SIZE + 8, ROW_SIZE + 9, ROW_SIZE + 10, InspectCpf - 1}

GeneratedEnv(argv, kind) == Env(argv, TRUE, GeneratedConfig, TRUE, TRUE, <<>>, TRUE, kind)

InitInspect ==
    /\ ProcessStart
    /\ env \in {InspectEnv(Argv(TRUE, x, FALSE, FALSE), "lvds") : x \in TracedCells}
              \cup {InspectEnv(Argv(TRUE, ROW_SIZE + x, TRUE, FALSE), "lvds") : x \in 0..MaxExtraCells}
              \cup {InspectEnv(Argv(TRUE, ROW_SIZE + x, b, FALSE), "raw") : x \in 0..MaxExtraCells, b \in BOOLEAN}
              \cup {InspectEnv(Argv(TRUE, 0, FALSE, m), "none") : m \in BOOLEAN}
              \cup {InspectEnv(Argv(FALSE, 0, FALSE, TRUE), "none")}
              \cup {GeneratedEnv(Argv(TRUE, x, FALSE, FALSE), "generated lvds") : x \in GeneratedCells}
              \cup {GeneratedEnv(Argv(TRUE, x, TRUE, FALSE), k) :
                        x \in GeneratedCells, k \in {"generated raw", "generated cut"}}
    /\ ofile = FileAtStart(env.fileKind)

NextInspect ==
    \/ parseCommandLine
    \/ readConfigurationFile
    \/ createLvdsTranslationTable
    \/ printLvdsMap
    \/ trace

SpecInspect == InitInspect /\ [][NextInspect]_vars

\* ---- the permutation table and its uses ---------------------------------------
\* createLvdsTranslationTable() has run in this process
TableIsBuilt ==
    /\ pc \notin {"parseCommandLine", "readConfigurationFile", "createLvdsTranslationTable"}
    /\ message # Msg("Can't read", "config", 0)

\* the raw offset a trace of cmdLine.cellNumber looks up
Probe == cmdLine.cellNumber % ROW_SIZE

\* C1: after createLvdsTranslationTable() every entry of the table lies in
\* [0, ROW_SIZE), the ROW_SIZE entries are ROW_SIZE different values (so every
\* raw offset is taken), and the raw offset at hand is the entry of exactly one
\* position
C1_TableIsBijection ==
    TableIsBuilt =>
        /\ DOMAIN lvdsTranslationTable = 0..(ROW_SIZE - 1)
        /\ \A j \in 0..(ROW_SIZE - 1) : lvdsTranslationTable[j] \in 0..(ROW_SIZE - 1)
        /\ Cardinality({lvdsTranslationTable[j] : j \in 0..(ROW_SIZE - 1)}) = ROW_SIZE
        /\ Cardinality({j \in 0..(ROW_SIZE - 1) : lvdsTranslationTable[j] = Probe}) = 1

C1_Witness ==
    /\ pc = "mode"
    /\ Probe = ROW_SIZE - 1
    /\ \E j \in 0..(ROW_SIZE - 1) : lvdsTranslationTable[j] = ROW_SIZE - 1

\* C3: for the raw offset r = cellNumber % ROW_SIZE of a trace, findLvdsCellOffset
\* finds a position p with table[p] = r; it misses only an offset no entry
\* equals (r + ROW_SIZE is one); and no run ends in the "BUG" error
C3_InverseLookup ==
    /\ message.kind # "BUG: findLvdsCellOffset with invalid cell offset"
    /\ TableIsBuilt =>
          LET look == findLvdsCellOffset(lvdsTranslationTable, Probe)
              miss == findLvdsCellOffset(lvdsTranslationTable, Probe + ROW_SIZE)
          IN  /\ look.found
              /\ look.offset \in 0..(ROW_SIZE - 1)
              /\ lvdsTranslationTable[look.offset] = Probe
              /\ ~miss.found
              /\ \A j \in 0..(ROW_SIZE - 1) : lvdsTranslationTable[j] # Probe + ROW_SIZE

C3_Witness ==
    /\ pc = "done"
    /\ outcome = "exit0"
    /\ cmdLine.trace
    /\ ~cmdLine.nolvds
    /\ cmdLine.cellNumber = ROW_SIZE + 5
    /\ Len(stdout) = 2

\* C4: a trace of cell X, without -nolvds, of the file that holds the
\* reorderForLvds images of two raw frames prints the bytes the raw frames hold
\* at X; with -nolvds, of the file that holds the raw frames, it prints the same
C4_TraceRoundTrip ==
    (/\ pc = "done"
     /\ outcome = "exit0"
     /\ cmdLine.trace
     /\ cmdLine.cellNumber < config.cells_per_frame
     /\ \/ env.fileKind = "lvds" /\ ~cmdLine.nolvds
        \/ env.fileKind = "raw" /\ cmdLine.nolvds)
    => stdout = <<RawPattern(config.cells_per_frame, 0)[cmdLine.cellNumber],
                  RawPattern(config.cells_per_frame, 1)[cmdLine.cellNumber]>>

C4_Witness ==
    /\ pc = "done"
    /\ outcome = "exit0"
    /\ cmdLine.trace
    /\ ~cmdLine.nolvds
    /\ env.fileKind = "lvds"
    /\ cmdLine.cellNumber = ROW_SIZE + 9
    /\ stdout = <<RawPattern(config.cells_per_frame, 0)[ROW_SIZE + 9],
                  RawPattern(config.cells_per_frame, 1)[ROW_SIZE + 9]>>
    /\ stdout # <<ofile.bytes[ROW_SIZE + 10], ofile.bytes[config.cells_per_frame + ROW_SIZE + 10]>>

\* ---- the frames of a generation run ---------------------------------------------
\* a pass of the data loop that built, reordered and wrote a frame
DataFrameWritten == pc = "dataFrame" /\ pc' # "done"

\* C2: reorderForLvds leaves, in every row rho and at every i in [0, ROW_SIZE),
\* the byte the frame held before at table[i] of the same row
C2_ReorderRowWise ==
    [][(DataFrameWritten /\ ~cmdLine.nolvds) =>
         \A rho \in 0..((config.cells_per_frame \div ROW_SIZE) - 1) :
           \A i \in 0..(ROW_SIZE - 1) :
             /\ lvdsTranslationTable[i] \in 0..(ROW_SIZE - 1)
             /\ frame'[(rho * ROW_SIZE) + i]
                  = rawFrame'[(rho * ROW_SIZE) + lvdsTranslationTable[i]]]_vars

\* a reordered two-row frame whose rows differ, after it was written
C2_Witness ==
    /\ pc = "dataFrame"
    /\ idx > 0
    /\ ~cmdLine.nolvds
    /\ config.cells_per_frame = 2 * ROW_SIZE
    /\ frame # rawFrame
    /\ rawFrame[ROW_SIZE] # config.quiescent
    /\ rawFrame[0] = config.quiescent
    /\ frame[ROW_SIZE + 63] = rawFrame[ROW_SIZE]

\* the frame number the frame in rawFrame was built for
BuiltFor == frameNumber - 1

\* x is a multiple of step
MultipleOf(x, step) ==
    IF step = 0 THEN x = 0
    ELSE x % (IF step < 0 THEN 0 - step ELSE step) = 0

\* the 0-based cell k lies in the range firstCell..lastCell at stride step
InSteppedRange(dr, k) ==
    /\ k >= dr.first - 1
    /\ k < dr.last
    /\ MultipleOf(k - (dr.first - 1), dr.step)

\* the records with a value for frame number n that have cell k in their range
Covering(k, n) ==
    {j \in 1..Len(distributionList) :
        /\ Len(distributionList[j].cellValue) > n
        /\ InSteppedRange(distributionList[j], k)}

\* C5: with a single record that has a value for frame n, the built frame holds
\* values[n] in exactly the cells k >= firstCell-1, k < lastCell with
\* k-(firstCell-1) a multiple of step, and quiescent in every other cell; a
\* record with lastCell < firstCell writes no cell
C5_SingleRecordRange ==
    (/\ frameNumber > 0
     /\ Len(distributionList) = 1
     /\ Len(distributionList[1].cellValue) > BuiltFor)
    => LET dr == distributionList[1]
       IN  /\ \A k \in 0..(config.cells_per_frame - 1) :
                 rawFrame[k] = (IF InSteppedRange(dr, k) THEN dr.cellValue[BuiltFor + 1]
                                ELSE config.quiescent)
           /\ dr.last < dr.first
                 => \A k \in 0..(config.cells_per_frame - 1) : rawFrame[k] = config.quiescent

\* C6: in every built frame a cell in the stepped range of no record holds
\* quiescent
C6_QuiescentDefault ==
    frameNumber > 0 =>
        \A k \in 0..(config.cells_per_frame - 1) :
            (\A j \in 1..Len(distributionList) : ~InSteppedRange(distributionList[j], k))
                => rawFrame[k] = config.quiescent

\* C7: in every built frame a cell in the range of several records holds
\* values[n] of the last record in list order among those that cover it and have
\* a value for frame n
C7_LastWriteWins ==
    frameNumber > 0 =>
        \A k \in 0..(config.cells_per_frame - 1) :
            Cardinality({j \in 1..Len(distributionList) :
                            InSteppedRange(distributionList[j], k)}) > 1
            /\ Covering(k, BuiltFor) # {}
                => rawFrame[k] = distributionList[Max(Covering(k, BuiltFor))].cellValue[BuiltFor + 1]

\* ---- the order of checks and output ---------------------------------------------
\* the run has touched its output: the file is open or not what it was before
\* the run, or a frame buffer exists
OutputStarted ==
    \/ ofileOpen
    \/ ofile # FileAtStart(env.fileKind)
    \/ frame # EmptyBuffer
    \/ pc \in {"diagnosticFrame", "dataFrame", "fclose"}

\* every fragment name of the distribution file resolves and every firstCell is
\* in 1..cells_per_frame, cells_per_frame is a multiple of ROW_SIZE, and the
\* totals the planner printed fit
ChecksPassed ==
    /\ \A k \in 1..Len(env.distributionFile.lines) :
          LET line == env.distributionFile.lines[k]
          IN  /\ line.first >= 1
              /\ line.first <= config.cells_per_frame
              /\ \A m \in 1..Len(line.names) : line.names[m] \in DOMAIN fragment
    /\ Len(distributionList) = Len(env.distributionFile.lines)
    /\ config.cells_per_frame % ROW_SIZE = 0
    /\ stats # NoStats
    /\ ~WLess(stats.maxFrames, stats.totalReqdFrames)

\* C10: the output file is opened and a frame built only after fragment
\* resolution, cell-range validation, the divisibility check and the capacity
\* check succeeded; a run that ends in an error of one of them leaves the output
\* file as it was before the run, neither created, truncated nor written
C10_ChecksBeforeOutput ==
    /\ OutputStarted => ChecksPassed
    /\ (pc = "done" /\ ~ChecksPassed) => (ofile = FileAtStart(env.fileKind) /\ ~ofileOpen)

\* a run rejected by the capacity check, with the file of an earlier run in place
C10_Witness ==
    /\ pc = "done"
    /\ outcome = "exit1"
    /\ message.kind = "won't fit into the contiguous buffer"
    /\ env.fileKind = "stale"
    /\ ofile = StaleFile
    /\ ~ofileOpen

\* ---- the capacity planner on large configurations --------------------------------
\* a fragment file with a long fragment: L holds 4583 values
PlanFragmentLines ==
    <<[name |-> "A", values |-> <<11, 12, 13>>],
      [name |-> "L", values |-> [k \in 1..4583 |-> k % 251]]>>

PlanDistFiles ==
    {<<>>,
     <<Line(1, 0, 0, <<"A">>)>>,
     <<Line(3, 9, 2, <<"A", "A">>), Line(1, 0, 0, <<"A">>)>>,
     <<Line(1, 0, 0, <<"A">>), Line(2, 0, 0, <<"L">>)>>}

\* contig_size: 6 frames of a row; 42949672960 (the value of the sample
\* configuration); 2^32 frames of a row and two more
PlanContigSizes ==
    {W(ROW_SIZE * 6), WMul(W(10), Two32), WAdd(WMul(Two32, W(ROW_SIZE)), W(2 * ROW_SIZE))}

\* data_frames: every uint32_t the file can give, 0 and 2^32 - 1 among them
PlanDataFrames == {W(0), W(1), W(2), W(4582), W(65536), WSub(Two32, W(1))}

PlanConfigs ==
    {[cells_per_frame |-> c, contig_size |-> size, diagnostic_values |-> d,
      data_frames |-> m, quiescent |-> 170] :
        c \in {0, ROW_SIZE}, size \in PlanContigSizes,
        d \in {<<>>, <<34, 32, 172>>}, m \in PlanDataFrames}

PlanEnvs ==
    {[Env(Argv(FALSE, 0, FALSE, FALSE), TRUE, cfg, TRUE, TRUE, d, TRUE, "none")
        EXCEPT !.fragmentFile.lines = PlanFragmentLines] :
        cfg \in PlanConfigs, d \in PlanDistFiles}

InitPlan ==
    /\ ProcessStart
    /\ env \in PlanEnvs
    /\ ofile = FileAtStart(env.fileKind)

NextPlan ==
    \/ parseCommandLine
    \/ readConfigurationFile
    \/ createLvdsTranslationTable
    \/ generate
    \/ loadFragments
    \/ loadDistribution
    \/ verifyDistributionIsValid

SpecPlan == InitPlan /\ [][NextPlan]_vars

\* verifyDistributionIsValid() has done its arithmetic, with no division by zero
PlanMade == stats # NoStats /\ ~ub

\* the quantities of the planner over unbounded integers
LongestValues == W(Max({0} \cup {Len(distributionList[j].cellValue) : j \in 1..Len(distributionList)}))
DiagnosticCount == W(Len(config.diagnostic_values))
GroupLength == WAdd(DiagnosticCount, config.data_frames)
GroupCount == WAdd(WDiv(LongestValues, config.data_frames), W(1))
TotalFrames == WMul(GroupCount, GroupLength)
MaxFrames == WDiv(config.contig_size, W(config.cells_per_frame))

\* C8: the planner computes longestSequence = the longest values length (0 for
\* an empty list), frameGroupLength = diagnostic values + data_frames,
\* frameGroupCount = longestSequence / data_frames + 1 >= 1 and totalFrames =
\* frameGroupCount * frameGroupLength; for data_frames 4582, 3 diagnostic values
\* and a longest sequence of 4583 these are 2, 4585 and 9170
C8_CapacityFormulas ==
    PlanMade =>
        /\ stats.longestSequence = LongestValues
        /\ stats.frameGroupLength = GroupLength
        /\ stats.frameGroupCount = GroupCount
        /\ WLeq(W(1), stats.frameGroupCount)
        /\ stats.totalReqdFrames = TotalFrames
        /\ (/\ config.data_frames = W(4582)
            /\ Len(config.diagnostic_values) = 3
            /\ LongestValues = W(4583))
           => /\ stats.frameGroupCount = W(2)
              /\ stats.frameGroupLength = W(4585)
              /\ stats.totalReqdFrames = W(9170)

\* C9: the run is aborted exactly when totalFrames > maxFrames =
\* contig_size / cells_per_frame, and when verifyDistributionIsValid() returns,
\* the bytes of the frames the write loop emits, totalFrames * cells_per_frame,
\* are at most contig_size
C9_CapacityCheck ==
    PlanMade =>
        /\ (pc = "done" /\ outcome = "exit1") <=> WLess(MaxFrames, TotalFrames)
        /\ pc = "writeOutputFile"
              => WLeq(WMul(TotalFrames, W(config.cells_per_frame)), config.contig_size)

\* ---- rejection of a frame size that is not whole rows -----------------------------
\* C11: with cells_per_frame not a multiple of ROW_SIZE, verifyDistributionIsValid()
\* ends the run with exit(1) and its message, no capacity quantity is ever
\* computed, and no frame is built or written
C11_RowSizeRejected ==
    /\ [](config.cells_per_frame % ROW_SIZE # 0
            => /\ stats = NoStats
               /\ frameGroupCount = <<>>
               /\ frame = EmptyBuffer
               /\ rawFrame = EmptyBuffer
               /\ ~ofileOpen
               /\ ofile = FileAtStart(env.fileKind)
               /\ pc \notin {"writeOutputFile", "diagnosticFrame", "dataFrame", "fclose"})
    /\ [][(pc = "verifyDistributionIsValid" /\ config.cells_per_frame % ROW_SIZE # 0)
            => /\ pc' = "done"
               /\ outcome' = "exit1"
               /\ message' = Msg("Config value 'cells_per_frame' must a multiple of", "", ROW_SIZE)]_vars

C11_Witness ==
    /\ pc = "done"
    /\ outcome = "exit1"
    /\ config.cells_per_frame = 2000
    /\ message.kind = "Config value 'cells_per_frame' must a multiple of"
    /\ stats = NoStats
    /\ Len(distributionList) = 2

\* ---- the distribution list against the distribution file --------------------------
\* the positions of the names of a line that the fragment table does not hold
UnknownNames(line) == {m \in 1..Len(line.names) : line.names[m] \notin DOMAIN fragment}

FirstCellBad(line) == line.first < 1 \/ line.first > config.cells_per_frame

\* the lines of the distribution file that cannot be loaded
FailingLines ==
    {k \in 1..Len(env.distributionFile.lines) :
        \/ FirstCellBad(env.distributionFile.lines[k])
        \/ UnknownNames(env.distributionFile.lines[k]) # {}}

\* the values of the named fragments, as bytes, one fragment after the other
RECURSIVE ValuesOfNames(_)
ValuesOfNames(names) ==
    IF names = <<>> THEN <<>>
    ELSE LET values == fragment[names[Len(names)]]
         IN  ValuesOfNames(SubSeq(names, 1, Len(names) - 1))
                \o [k \in 1..Len(values) |-> values[k] % 256]

\* the record a line of the distribution file stands for
RecordOfLine(line) ==
    [first |-> line.first,
     last |-> IF line.last = 0 THEN line.first ELSE line.last,
     step |-> IF line.step = 0 THEN 1 ELSE line.step,
     cellValue |-> ValuesOfNames(line.names)]

\* the list holds exactly the records of the first n lines of the file
HoldsLines(n) ==
    /\ Len(distributionList) = n
    /\ \A j \in 1..n : distributionList[j] = RecordOfLine(env.distributionFile.lines[j])

\* loadDistribution() has read the whole file
DistributionLoaded ==
    pc \in {"verifyDistributionIsValid", "writeOutputFile", "diagnosticFrame", "dataFrame", "fclose"}

\* C12: a line naming a fragment the table does not hold ends loadDistribution()
\* with an error naming the first such fragment of the line; the list then holds
\* the records of the lines before it and none for the line itself; a file
\* that was loaded to its end has no such line
C12_UnknownFragment ==
    /\ message.kind = "Undefined fragment name"
          => /\ pc = "done" /\ outcome = "exception"
             /\ FailingLines # {}
             /\ LET k == Min(FailingLines)
                     line == env.distributionFile.lines[k]
                 IN  /\ ~FirstCellBad(line)
                     /\ UnknownNames(line) # {}
                     /\ message.name = line.names[Min(UnknownNames(line))]
                     /\ HoldsLines(k - 1)
    /\ DistributionLoaded
          => \A k \in 1..Len(env.distributionFile.lines) :
                UnknownNames(env.distributionFile.lines[k]) = {}

\* the second line names A, which resolves, and then Z
C12_Witness ==
    /\ pc = "done"
    /\ message = Msg("Undefined fragment name", "Z", 0)
    /\ Len(env.distributionFile.lines) = 2
    /\ env.distributionFile.lines[2].names = <<"A", "Z">>
    /\ Len(distributionList) = 1

\* C13: every record of the list has 1 <= firstCell <= cells_per_frame; a line
\* whose firstCell is outside that range ends loadDistribution() with an invalid-
\* cell-number error naming the number, and no record is appended for it
C13_FirstCellInRange ==
    /\ \A j \in 1..Len(distributionList) :
          /\ distributionList[j].first >= 1
          /\ distributionList[j].first <= config.cells_per_frame
    /\ message.kind = "Invalid cell number"
          => /\ pc = "done" /\ outcome = "exception"
             /\ FailingLines # {}
             /\ LET k == Min(FailingLines)
                     line == env.distributionFile.lines[k]
                 IN  /\ FirstCellBad(line)
                     /\ message.number = line.first
                     /\ HoldsLines(k - 1)
    /\ DistributionLoaded
          => \A k \in 1..Len(env.distributionFile.lines) :
                ~FirstCellBad(env.distributionFile.lines[k])

\* a line with firstCell 0 after a good line
C13_Witness ==
    /\ pc = "done"
    /\ message = Msg("Invalid cell number", "", 0)
    /\ Len(env.distributionFile.lines) = 2
    /\ Len(distributionList) = 1
    /\ distributionList[1].first = 5

\* C14: a record of a line without lastCell (or with 0) has lastCell = firstCell,
\* one of a line without step (or with 0) has step = 1, no record has step 0,
\* and a record given only firstCell puts its value in the one cell firstCell-1
\* of every frame it has a value for, and in no cell of any other frame
C14_Defaults ==
    /\ \A j \in 1..Len(distributionList) :
          LET line == env.distributionFile.lines[j]
              dr == distributionList[j]
          IN  /\ line.last = 0 => dr.last = dr.first
              /\ line.last # 0 => dr.last = line.last
              /\ line.step = 0 => dr.step = 1
              /\ line.step # 0 => dr.step = line.step
              /\ dr.step # 0
    /\ (/\ frameNumber > 0
        /\ Len(distributionList) = 1
        /\ env.distributionFile.lines[1].last = 0
        /\ env.distributionFile.lines[1].step = 0)
          => LET dr == distributionList[1]
             IN  \A k \in 0..(config.cells_per_frame - 1) :
                    rawFrame[k] = IF k = dr.first - 1 /\ BuiltFor < Len(dr.cellValue)
                                  THEN dr.cellValue[BuiltFor + 1]
                                  ELSE config.quiescent

\* the line "5, $ A" in the second frame of a run
C14_Witness ==
    /\ frameNumber = 2
    /\ env.distributionFile.lines = <<Line(5, 0, 0, <<"A">>)>>
    /\ distributionList = <<[first |-> 5, last |-> 5, step |-> 1, cellValue |-> <<11, 12, 13>>]>>
    /\ rawFrame[4] = 12
    /\ rawFrame[5] = config.quiescent

\* ---- the layout of the file --------------------------------------------------------
\* N diagnostic frames and M data frames to a group, as plain numbers
DiagFramesN == Len(config.diagnostic_values)
DataFramesM == WInt(config.data_frames)

\* byte c of the k-th frame of the file, both counted from 0
FileByte(k, c) == ofile.bytes[(k * config.cells_per_frame) + c + 1]

\* the run passed every check and could open its output file
WritingRun == ChecksPassed /\ env.outputCreatable

C16_FrameNumberRuns ==
    [][/\ pc = "dataFrame" => frameNumber = (frameGroup * DataFramesM) + idx
       /\ pc = "diagnosticFrame" => frameNumber' = frameNumber
       /\ DataFrameWritten =>
            /\ frameNumber' = frameNumber + 1
            /\ LET n == (frameGroup * DataFramesM) + idx
                   j == Len(distributionList)
               IN  (/\ j > 0
                    /\ n < Len(distributionList[j].cellValue)
                    /\ distributionList[j].first <= distributionList[j].last)
                   => rawFrame'[distributionList[j].first - 1]
                        = distributionList[j].cellValue[n + 1]]_vars

\* the first data frame of the second group was built with n = 2
C16_Witness ==
    /\ pc = "dataFrame"
    /\ frameGroup = 1
    /\ idx = 1
    /\ frameNumber = 3
    /\ DataFramesM = 2
    /\ distributionList = <<[first |-> 5, last |-> 5, step |-> 1, cellValue |-> <<11, 12, 13>>]>>
    /\ rawFrame[4] = 13

\* C17: with -nolvds every data frame written is, byte for byte, the frame
\* buildDataFrame() produced; without it, every data frame written holds at
\* rho*ROW_SIZE + i the byte that frame has at rho*ROW_SIZE + table[i]
C17_NoReorderMode ==
    [][DataFrameWritten =>
         LET before == Len(ofile.bytes)
         IN  /\ Len(ofile'.bytes) = before + config.cells_per_frame
             /\ \A c \in 0..(config.cells_per_frame - 1) :
                   /\ ofile'.bytes[before + c + 1] = frame'[c]
                   /\ frame'[c] = IF cmdLine.nolvds THEN rawFrame'[c]
                                  ELSE rawFrame'[((c \div ROW_SIZE) * ROW_SIZE)
                                                  + lvdsTranslationTable[c % ROW_SIZE]]]_vars

\* a raw data frame with a fragment value in it, at the end of the file
C17_Witness ==
    /\ pc = "dataFrame"
    /\ idx > 0
    /\ cmdLine.nolvds
    /\ frame = rawFrame
    /\ rawFrame[4] = 11
    /\ ofile.bytes[(Len(ofile.bytes) - config.cells_per_frame) + 5] = 11
    /\ lvdsTranslationTable[4] # 4

\* ---- the reused frame buffer --------------------------------------------------------
\* C18: the frame buildDataFrame() leaves depends on the distribution list, the
\* frame number, quiescent and cells_per_frame only: built over a buffer of
\* zeroes, a buffer of a diagnostic value or the frame written last, it is the
\* frame built over the buffer at hand, and each of its bytes is quiescent or
\* the value some record has for this frame number
C18_BuildIsDeterministic ==
    [][DataFrameWritten =>
         /\ \A prior \in {NewBuffer(0, config.cells_per_frame),
                           NewBuffer(34, config.cells_per_frame),
                           rawFrame'} :
               buildDataFrame(prior, frameNumber, config, distributionList).frame = rawFrame'
         /\ \A c \in 0..(config.cells_per_frame - 1) :
               \/ rawFrame'[c] = config.quiescent
               \/ \E j \in 1..Len(distributionList) :
                     /\ frameNumber < Len(distributionList[j].cellValue)
                     /\ rawFrame'[c] = distributionList[j].cellValue[frameNumber + 1]]_vars

\* a data frame built over the reordered frame written before it, which held a
\* fragment value where the new frame is quiescent
C18_Witness ==
    /\ pc = "fclose"
    /\ frameNumber = 2
    /\ DataFramesM = 2
    /\ DiagFramesN = 0
    /\ ~cmdLine.nolvds
    /\ distributionList = <<[first |-> 6, last |-> 6, step |-> 1, cellValue |-> <<9>>]>>
    /\ rawFrame = NewBuffer(config.quiescent, config.cells_per_frame)
    /\ frame = rawFrame

\* ---- the values of a record ----------------------------------------------------------
\* the value sequences of the named fragments, as the fragment table holds them,
\* one after the other
RECURSIVE FragmentValues(_)
FragmentValues(names) ==
    IF names = <<>> THEN <<>>
    ELSE FragmentValues(SubSeq(names, 1, Len(names) - 1)) \o fragment[names[Len(names)]]

RECURSIVE SumOfLengths(_)
SumOfLengths(names) ==
    IF names = <<>> THEN 0
    ELSE SumOfLengths(SubSeq(names, 1, Len(names) - 1)) + Len(fragment[names[Len(names)]])

\* C19: the values of every record of the list are exactly the value sequences
\* of the fragments named on its line, in the order of the line, a fragment named
\* twice taken twice, with nothing before or after them; their number is the sum
\* of the lengths of those fragments
C19_ValuesAreConcatenation ==
    \A j \in 1..Len(distributionList) :
        LET names == env.distributionFile.lines[j].names
        IN  /\ Len(distributionList[j].cellValue) = SumOfLengths(names)
            /\ distributionList[j].cellValue = FragmentValues(names)

\* ---- a run onto a device that fills up -------------------------------------------------
\* a run of two groups of 2 diagnostic and 2 data frames, or of one such group
DiskDistFiles ==
    {<<Line(5, 0, 0, <<"A">>)>>,
     <<Line(6, 0, 0, <<"C">>)>>}

\* the device is full at once, after one frame, in the middle of the second
\* frame or after three frames, or takes the whole file
DiskDevices ==
    {Full(0), Full(ROW_SIZE), Full(ROW_SIZE + (ROW_SIZE \div 2)), Full(3 * ROW_SIZE), Roomy}

\* the runs that write, and one run for every other step that can fail: a
\* file that is missing, an output file that cannot be created, a first cell
\* outside the frame, a fragment that is not defined, a frame that is not whole
\* rows, and a distribution that does not fit contig_size
DiskEnvs ==
    {[Env(Argv(FALSE, 0, b, FALSE), TRUE, BaseConfig, TRUE, TRUE, d, TRUE, "stale")
          EXCEPT !.device = dev] :
        b \in BOOLEAN, d \in DiskDistFiles, dev \in DiskDevices}
    \cup {[e EXCEPT !.device = Full(ROW_SIZE)] : e \in
            {Env(Argv(FALSE, 0, FALSE, FALSE), FALSE, BaseConfig, TRUE, TRUE, <<>>, TRUE, "stale"),
             Env(Argv(FALSE, 0, FALSE, FALSE), TRUE, BaseConfig, FALSE, TRUE, <<>>, TRUE, "stale"),
             Env(Argv(FALSE, 0, FALSE, FALSE), TRUE, BaseConfig, TRUE, FALSE, <<>>, TRUE, "stale"),
             Env(Argv(FALSE, 0, FALSE, FALSE), TRUE, BaseConfig, TRUE, TRUE, <<>>, FALSE, "stale"),
             Env(Argv(FALSE, 0, FALSE, FALSE), TRUE, BaseConfig, TRUE, TRUE,
                 <<Line(5, 0, 0, <<"A">>), Line(0, 0, 0, <<"A">>)>>, TRUE, "stale"),
             Env(Argv(FALSE, 0, FALSE, FALSE), TRUE, BaseConfig, TRUE, TRUE,
                 <<Line(5, 0, 0, <<"A">>), Line(7, 0, 0, <<"A", "Z">>)>>, TRUE, "stale"),
             Env(Argv(FALSE, 0, FALSE, FALSE), TRUE, [BaseConfig EXCEPT !.cells_per_frame = 2000],
                 TRUE, TRUE, <<>>, TRUE, "stale"),
             Env(Argv(FALSE, 0, FALSE, FALSE), TRUE, [BaseConfig EXCEPT !.contig_size = W(ROW_SIZE * 7)],
                 TRUE, TRUE, <<Line(5, 0, 0, <<"A">>)>>, TRUE, "stale")}}

InitDisk ==
    /\ ProcessStart
    /\ env \in DiskEnvs
    /\ ofile = FileAtStart(env.fileKind)

NextDisk ==
    \/ parseCommandLine
    \/ readConfigurationFile
    \/ createLvdsTranslationTable
    \/ generate
    \/ loadFragments
    \/ loadDistribution
    \/ verifyDistributionIsValid
    \/ writeOutputFile_open
    \/ writeOutputFile_diagnostic
    \/ writeOutputFile_data
    \/ writeOutputFile_close

SpecDisk == InitDisk /\ [][NextDisk]_vars

\* a step of the run has failed: an input that cannot be read, a line of the
\* distribution file that is refused, a frame that is not whole rows, a
\* distribution that does not fit, an output file that cannot be created, or a
\* frame that was not written whole
FailedStep ==
    \/ ~env.configFile.readable
    \/ ~env.fragmentFile.found
    \/ ~env.distributionFile.found
    \/ FailingLines # {}
    \/ env.configFile.values.cells_per_frame % ROW_SIZE # 0
    \/ (stats # NoStats /\ WLess(stats.maxFrames, stats.totalReqdFrames))
    \/ ~env.outputCreatable
    \/ ofile.error

\* the run has ended with a message about what failed
EndedWithMessage ==
    /\ pc = "done"
    /\ outcome \in {"exception", "exit1"}
    /\ message # NoMessage

\* C20: a run in which a step failed (an invalid cell number, an unknown
\* fragment, cells_per_frame not whole rows, a capacity overflow, an input that
\* cannot be read, an output that cannot be created, a frame write that failed)
\* ends with a message, and never as a run that returned; once a frame write
\* has failed, the next step ends the run with a message and writes nothing more
C20_ErrorsEndTheRun ==
    /\ []((pc = "done" /\ FailedStep) => EndedWithMessage)
    /\ [][ofile.error => (ofile' = ofile /\ EndedWithMessage')]_vars

\* ---- the entries of the table --------------------------------------------------------
\* the position step i of sub-row r of group g stores to
TablePosition(g, r, i) == (g * 256) + (r * 64) + 63 - i

\* C21: createLvdsTranslationTable() leaves r*512 + g + 8*i at position
\* g*256 + r*64 + 63 - i for every group g in 0..7, sub-row r in 0..3 and step i
\* in 0..63; the 2048 triples store to 2048 different positions, which are all
\* positions of the table, so that no entry keeps the value it had before
C21_TableEntries ==
    [][pc = "createLvdsTranslationTable" =>
          /\ \A g \in 0..7, r \in 0..3, i \in 0..63 :
                lvdsTranslationTable'[TablePosition(g, r, i)] = (r * 512) + g + (8 * i)
          /\ {TablePosition(g, r, i) : g \in 0..7, r \in 0..3, i \in 0..63}
                = DOMAIN lvdsTranslationTable'
          /\ Cardinality({<<g, r, i>> : g \in 0..7, r \in 0..3, i \in 0..63}) = ROW_SIZE]_vars

C21_Witness ==
    /\ pc = "mode"
    /\ lvdsTranslationTable[63] = 0
    /\ lvdsTranslationTable[0] = 504
    /\ lvdsTranslationTable[ROW_SIZE - 1] = 1543

\* ---- the number of frame groups ---------------------------------------------------------
\* ceil(a / b) for b >= 1
CeilDiv(a, b) == (a + b - 1) \div b

\* C22: for data_frames >= 1 the planner's frameGroupCount times data_frames
\* exceeds the longest values length L; frameGroupCount is ceil(L / data_frames)
\* when L is not a multiple of data_frames and ceil(L / data_frames) + 1 when it
\* is (L = 0 included); and when the write loop has ended it has built the data
\* frames of the frame numbers 0 .. frameGroupCount * data_frames - 1, which
\* include every index below L
C22_TailIsEmitted ==
    LET L == Max({0} \cup {Len(distributionList[j].cellValue) : j \in 1..Len(distributionList)})
        D == DataFramesM
    IN  /\ (PlanMade /\ D >= 1) =>
              LET G == WInt(stats.frameGroupCount)
              IN  /\ G * D > L
                  /\ G = (IF L % D = 0 THEN CeilDiv(L, D) + 1 ELSE CeilDiv(L, D))
        /\ pc = "fclose" =>
              /\ frameNumber = WInt(frameGroupCount) * D
              /\ frameNumber > L

C22_Witness ==
    /\ pc = "fclose"
    /\ DataFramesM = 2
    /\ Len(distributionList) = 1
    /\ Len(distributionList[1].cellValue) = 2
    /\ frameNumber = 4

\* ---- the life of the table ------------------------------------------------------------
\* the next step of the run reads the table: printLvdsMap(), trace(), or a pass
\* of the data loop of writeOutputFile()
UsesTable ==
    \/ pc = "mode" /\ (cmdLine.lvdsmap \/ cmdLine.trace)
    \/ pc = "dataFrame"

\* C23: the table is built by one step of the run, from the zero-initialised
\* global, and that step is never taken again; it has been built in every state
\* from which printLvdsMap(), trace() or the write loop goes on; and every other
\* step of the run (reorderForLvds, findLvdsCellOffset, trace, printLvdsMap,
\* buildDataFrame, the write loop included) leaves every entry as it was
C23_TableBuiltOnce ==
    /\ [](UsesTable => (lvdsTranslationTable # ZeroTable /\ TableIsBuilt))
    /\ [][/\ (pc = "createLvdsTranslationTable" =>
                (lvdsTranslationTable = ZeroTable /\ lvdsTranslationTable' # ZeroTable))
           /\ (pc # "createLvdsTranslationTable" => lvdsTranslationTable' = lvdsTranslationTable)
           /\ (pc' = "createLvdsTranslationTable" => pc = "readConfigurationFile")]_vars

C23_Witness ==
    /\ pc = "fclose"
    /\ ~cmdLine.nolvds
    /\ frameNumber > 0
    /\ lvdsTranslationTable[0] = 504

\* ---- the diagnostic frames ------------------------------------------------------------
\* C24: pass j of the diagnostic loop of any frame group appends one frame to
\* the file, every one of its cells_per_frame bytes being diagnostic_values[j];
\* the buffer it was written from holds that value in every cell, whatever data
\* frame was built in it before
C24_DiagnosticFrames ==
    [][pc = "diagnosticFrame" =>
          LET before == Len(ofile.bytes)
              value  == config.diagnostic_values[idx + 1]
          IN  /\ Len(ofile'.bytes) = before + config.cells_per_frame
              /\ \A c \in 0..(config.cells_per_frame - 1) :
                    /\ ofile'.bytes[before + c + 1] = value
                    /\ frame'[c] = value]_vars

\* the first diagnostic frame of the second group has been written over the
\* buffer of a data frame that held the value of fragment C at cell 6
C24_Witness ==
    /\ pc = "diagnosticFrame"
    /\ frameGroup = 1
    /\ idx = 1
    /\ cmdLine.nolvds
    /\ Len(ofile.bytes) = 4 * config.cells_per_frame
    /\ FileByte(2, 5) = 9
    /\ FileByte(3, 5) = 34

\* ---- the widths of the planner ------------------------------------------------------
\* C25: the planner's totalFrames, maxFrames and totalBytes are the values over
\* unbounded integers, (floor(L / D) + 1) * (N + D), floor(contig_size /
\* cells_per_frame) and totalFrames * cells_per_frame, and the run is accepted
\* exactly when the unbounded totalFrames is at most the unbounded maxFrames
C25_NoWraparound ==
    PlanMade =>
        /\ stats.totalReqdFrames = TotalFrames
        /\ stats.maxFrames = MaxFrames
        /\ stats.totalContigReqd = WMul(TotalFrames, W(config.cells_per_frame))
        /\ (pc = "writeOutputFile") <=> WLeq(TotalFrames, MaxFrames)

\* ---- the stores of buildDataFrame() -------------------------------------------------
\* C26: for every list loadDistribution() accepted, every cell index that the
\* next buildDataFrame() stores to (the cells of every record that has a value
\* for the frame number) lies in [0, cells_per_frame)
C26_WritesInBounds ==
    pc = "dataFrame" =>
        \A j \in 1..Len(distributionList) :
            frameNumber < Len(distributionList[j].cellValue) =>
                LET visited == CellsOf(distributionList[j]).cells
                IN  \A k \in 1..Len(visited) : WLess(visited[k], W(config.cells_per_frame))

\* ---- records whose values are used up ----------------------------------------------
\* the cells of the buffer stored to by the records that have a value for frame n
ActiveCells(n) ==
    UNION {InBuffer(CellsOf(distributionList[j]).cells, config.cells_per_frame) :
             j \in {i \in 1..Len(distributionList) : n < Len(distributionList[i].cellValue)}}

\* C27: in the data frame of number n, only cells of records with more than n
\* values differ from quiescent, so a record of n values or fewer changes no cell;
\* a data frame with n >= the longest values length is quiescent in every cell,
\* as built and as written (reordered or not); and the last frame of the file of
\* a finished write loop is such a frame, its number frameGroupCount *
\* data_frames - 1 being at least the longest values length
C27_ShortRecordsIdle ==
    /\ [][DataFrameWritten =>
             LET n      == frameNumber
                 active == ActiveCells(n)
                 before == Len(ofile.bytes)
             IN  \A c \in 0..(config.cells_per_frame - 1) :
                     /\ c \notin active => rawFrame'[c] = config.quiescent
                     /\ WLeq(LongestValues, W(n)) =>
                            /\ frame'[c] = config.quiescent
                            /\ ofile'.bytes[before + c + 1] = config.quiescent]_vars
    /\ [](pc = "fclose" =>
             /\ WLeq(LongestValues, W(frameNumber - 1))
             /\ frameNumber = WInt(frameGroupCount) * DataFramesM
             /\ \A c \in 0..(config.cells_per_frame - 1) :
                    ofile.bytes[(Len(ofile.bytes) - config.cells_per_frame) + c + 1]
                        = config.quiescent)

C27_Witness ==
    /\ pc = "fclose"
    /\ cmdLine.nolvds
    /\ frameNumber = 2
    /\ Len(ofile.bytes) = 2 * config.cells_per_frame
    /\ FileByte(0, 5) = 9
    /\ FileByte(1, 5) = config.quiescent

\* ---- the inverse lookup, computed directly ------------------------------------------
\* the position of raw offset v by arithmetic
DirectOffset(v) == ((v % 8) * 256) + ((v \div 512) * 64) + 63 - ((v % 512) \div 8)

\* C28: for the raw offset v of a trace, the linear search of
\* findLvdsCellOffset(v) returns (v mod 8)*256 + (v div 512)*64 + 63 -
\* ((v mod 512) div 8); the table holds v at that position, and the arithmetic
\* inverts the table at every position i (inv[table[i]] = i)
C28_LookupIsDirect ==
    TableIsBuilt =>
        /\ findLvdsCellOffset(lvdsTranslationTable, Probe).found
        /\ findLvdsCellOffset(lvdsTranslationTable, Probe).offset = DirectOffset(Probe)
        /\ lvdsTranslationTable[DirectOffset(Probe)] = Probe
        /\ \A i \in 0..(ROW_SIZE - 1) : DirectOffset(lvdsTranslationTable[i]) = i

C28_Witness ==
    /\ pc = "done"
    /\ cmdLine.trace
    /\ ~cmdLine.nolvds
    /\ Probe = 1543
    /\ findLvdsCellOffset(lvdsTranslationTable, Probe).offset = ROW_SIZE - 1

\* ---- termination -------------------------------------------------------------------
\* the process is sequential and nothing it waits for is outside it: as long as
\* main() has not returned, its next step is taken
LiveDistFiles ==
    {<<>>,
     <<Line(6, 0, 0, <<"C">>)>>,
     <<Line(1, ROW_SIZE, 512, <<"A", "B">>)>>,
     <<Line(5, 10, -2, <<"B">>)>>,
     <<Line(5, -1, -5, <<"B">>)>>,
     <<Line(ROW_SIZE - 8, ROW_SIZE + 12, 7, <<"A">>)>>,
     <<Line(5, 0, 0, <<"A">>), Line(7, 0, 0, <<"A", "Z">>)>>}

\* runs of one row to a frame, with room for 8 frames
LiveEnvs ==
    {Env(Argv(FALSE, 0, b, FALSE), TRUE, [BaseConfig EXCEPT !.data_frames = W(m)], TRUE, TRUE,
         d, creatable, "stale") :
        b \in BOOLEAN, m \in {1, MaxDataFrames}, d \in LiveDistFiles, creatable \in BOOLEAN}

InitLive ==
    /\ ProcessStart
    /\ env \in LiveEnvs
    /\ ofile = FileAtStart(env.fileKind)

NextLive ==
    \/ parseCommandLine
    \/ readConfigurationFile
    \/ createLvdsTranslationTable
    \/ generate
    \/ loadFragments
    \/ loadDistribution
    \/ verifyDistributionIsValid
    \/ writeOutputFile_open
    \/ writeOutputFile_diagnostic
    \/ writeOutputFile_data
    \/ writeOutputFile_close

\* every step of the sequential process is taken once it is possible: weak
\* fairness of each action. For the planner and the data loop it is written
\* out, []<>~ENABLED <<A>>_vars \/ []<><<A>>_vars, with the position of the run
\* for ENABLED: every branch of the two actions is a step out of the state
Fairness ==
    /\ WF_vars(parseCommandLine)
    /\ WF_vars(readConfigurationFile)
    /\ WF_vars(createLvdsTranslationTable)
    /\ WF_vars(generate)
    /\ WF_vars(loadFragments)
    /\ WF_vars(loadDistribution)
    /\ ([]<>(pc # "verifyDistributionIsValid") \/ []<><<verifyDistributionIsValid>>_vars)
    /\ WF_vars(writeOutputFile_open)
    /\ WF_vars(writeOutputFile_diagnostic)
    /\ ([]<>(pc # "dataFrame") \/ []<><<writeOutputFile_data>>_vars)
    /\ WF_vars(writeOutputFile_close)

SpecLive == InitLive /\ [][NextLive]_vars /\ Fairness

RecordValue(k, n) ==
    LET recs == {j \in 1..Len(GeneratedList) : GeneratedList[j].first = k}
    IN  IF recs = {} THEN GeneratedConfig.quiescent
        ELSE LET rec == GeneratedList[CHOOSE j \in recs : TRUE]
             IN  IF n < Len(rec.cellValue) THEN rec.cellValue[n + 1] ELSE GeneratedConfig.quiescent

\* C30: trace(c) of a file a generation run wrote with the same -nolvds setting
\* prints one value for every complete frame, in file order: the diagnostic
\* value of each diagnostic frame, and for the data frame of number n the value
\* the record addressing cell number c + 1 (not c) has for frame n, which is the
\* raw byte at index c; a last frame that is short gives no value
C30_TraceIsZeroBased ==
    (/\ pc = "done"
     /\ outcome = "exit0"
     /\ cmdLine.trace
     /\ cmdLine.cellNumber < config.cells_per_frame
     /\ \/ env.fileKind = "generated lvds" /\ ~cmdLine.nolvds
        \/ env.fileKind \in {"generated raw", "generated cut"} /\ cmdLine.nolvds)
    => LET c    == cmdLine.cellNumber
           full == <<34, 32, RecordValue(c + 1, 0), RecordValue(c + 1, 1), RecordValue(c + 1, 2)>>
       IN  stdout = (IF env.fileKind = "generated cut" THEN SubSeq(full, 1, 4) ELSE full)

C30_Witness ==
    /\ pc = "done"
    /\ outcome = "exit0"
    /\ cmdLine.trace
    /\ ~cmdLine.nolvds
    /\ env.fileKind = "generated lvds"
    /\ cmdLine.cellNumber = ROW_SIZE + 9
    /\ stdout = <<34, 32, 7, 8, 170>>

====
